---- MODULE Spec2Model ----
(***************************************************************************)
(* PagePublisher (src/src/publishing/pagePublisher.ts): one publish() run  *)
(* on a single-threaded event loop, and PagesWorkshop                      *)
(* (src/src/workshops/page/ko/pages.ts): one mounted view model driven by   *)
(* its user.  Every action is one resumption of an async function (the      *)
(* settling of the call it awaits together with the synchronous code that   *)
(* follows up to the next await) or one synchronous call.                   *)
(*                                                                         *)
(* Strings are sequences of characters, so concatenation, endsWith and     *)
(* comparison are computed as JavaScript computes them.                     *)
(***************************************************************************)
EXTENDS Naturals, Sequences, FiniteSets, Bags

VARIABLES
    pc,             \* where publish() is suspended, or how it settled
    site,           \* the pages held by the page service
    locales,        \* result of getLocales()
    defaultLocale,  \* result of getDefaultLocale()
    settings,       \* result of getSiteSettings()
    media,          \* what the media service holds under the favicon key
    li,             \* index of the locale whose search is awaited (0: unlocalized)
    results,        \* the results array: one renderAndUpload promise per entry
    sitemap,        \* SitemapBuilder: permalinks in the order appended
    indexer,        \* SearchIndexBuilder: documents appended
    localStyles,    \* LocalStyleBuilder.buildLocalStyle calls (a bag)
    globalStyle,    \* LocalStyleBuilder.buildGlobalStyle was called
    blobs,          \* outputBlobStorage: blobs uploaded
    log,            \* Logger.traceError / console.log records
    thrown,         \* the error publish() rejected with, if it did
    initializePc,   \* PagesWorkshop: where initialize() is, or how it settled
    searchPattern,  \* PagesWorkshop.searchPattern
    notifiedPattern,\* the searchPattern value its subscribers last saw
    workshopPages,  \* PagesWorkshop.pages
    working,        \* PagesWorkshop.working
    selectedPage,   \* PagesWorkshop.selectedPage (empty: undefined)
    view,           \* the page whose details view selectPage opened (empty: none)
    searches,       \* the searchPages calls made, in the order issued
    store,          \* the pages the workshop's page service holds
    addPageCalls,   \* addPage calls awaiting createPage
    created         \* addPage calls made

publisherVars == <<pc, site, locales, defaultLocale, settings, media, li, results,
                   sitemap, indexer, localStyles, globalStyle, blobs, log, thrown>>

workshopVars == <<initializePc, searchPattern, notifiedPattern, workshopPages, working,
                  selectedPage, view, searches, store, addPageCalls, created>>

vars == <<publisherVars, workshopVars>>

----------------------------------------------------------------------------
(* Bounds *)

\* Most renderAndUpload tasks in one run (pages of the site x locales).
MaxTasks == 4

\* Most pages of a site in the runs checked for liveness.
MaxFairPages == 2

\* Most searchPages calls made on one PagesWorkshop.
MaxSearches == 3

\* Most addPage calls made on one PagesWorkshop.
MaxAdds == 1

----------------------------------------------------------------------------
(* JavaScript values *)

Null == [t |-> "null"]
Undefined == [t |-> "undefined"]
Str(s) == [t |-> "string", s |-> s]

\* ToBoolean: null, undefined and "" are falsy.
Truthy(v) == v.t = "string" /\ v.s # <<>>

\* `${v || ""}`
OrEmpty(v) == IF Truthy(v) THEN v.s ELSE <<>>

\* String.prototype.endsWith
EndsWith(s, suffix) ==
    /\ Len(s) >= Len(suffix)
    /\ SubSeq(s, Len(s) - Len(suffix) + 1, Len(s)) = suffix

\* JSON.parse over the texts of the model: an empty object or an unsigned
\* integer literal; anything else throws SyntaxError.
JsonDigits == {"0", "1", "2", "3", "4", "5", "6", "7", "8", "9"}

IsJson(s) ==
    \/ s = <<"{", "}">>
    \/ /\ Len(s) >= 1
       /\ \A i \in 1..Len(s) : s[i] \in JsonDigits
       /\ (Len(s) > 1 => s[1] # "0")

JsonParse(s) ==
    IF s = <<"{", "}">> THEN [kind |-> "object"]
    ELSE [kind |-> "number", text |-> s]

----------------------------------------------------------------------------
(* The environment: the site's pages, locales and settings *)

en == <<"e", "n">>
fr == <<"f", "r">>
LocaleCodes == {en, fr}

\* getDefaultLocale() result.
DefaultLocale == en

\* getLocales() results: the locale codes, in list order, without repetition.
LocaleLists == {<<>>, <<en>>, <<fr>>, <<en, fr>>, <<fr, en>>}

NotJson == <<"{", "n", "o", "t", " ", "j", "s", "o", "n">>

Page(key, permalink, jsonLd) ==
    [key |-> key, permalink |-> permalink, title |-> <<"P", key>>, jsonLd |-> jsonLd]

Catalogue ==
    <<Page("1", <<"/">>, Str(NotJson)),
      Page("2", <<"/", "a">>, Undefined),
      Page("3", <<"/", "b", "/">>, Str(<<"{", "}">>)),
      Page("4", <<"/", "a", "/", "c">>, Str(<<"4", "2">>)),
      Page("5", <<>>, Str(<<>>))>>

Sites == {SubSeq(Catalogue, 1, n) : n \in 0..(IF MaxTasks < 5 THEN MaxTasks ELSE 5)}

Hostname == <<"h", ".", "i", "o">>
FaviconKey == <<"f", "a", "v">>
FaviconPermalink == <<"/", "f", ".", "i", "c", "o">>
SiteTitle == <<"S", "i", "t", "e">>

\* getSiteSettings() results: a site with neither hostname nor favicon, one
\* with an empty hostname, and one with both.
SiteSettings(h, f) ==
    [site |-> [hostname |-> h, faviconSourceKey |-> f, title |-> Str(SiteTitle)]]

SettingsSet ==
    {SiteSettings(Undefined, Undefined), SiteSettings(Str(<<>>), Undefined),
     SiteSettings(Str(Hostname), Str(FaviconKey))}

\* The media service answers every lookup of the favicon key of one run alike:
\* with the media object, with nothing, or by failing.
MediaStates(s) ==
    IF Truthy(s.site.faviconSourceKey) THEN {"found", "missing", "fails"} ELSE {"unused"}

NoSettings == [site |-> [hostname |-> Undefined, faviconSourceKey |-> Undefined,
                         title |-> Undefined]]

----------------------------------------------------------------------------
(* Errors and the logger *)

Err(src, task, message) == [src |-> src, task |-> task, message |-> message]

LogEntry(error, label) == [error |-> error, label |-> label]

NoError == Err("", 0, <<>>)

----------------------------------------------------------------------------
(* renderAndUpload: the values it computes *)

Https == <<"h", "t", "t", "p", "s", ":", "/", "/">>
GlobalStylePath == <<"/", "s", "t", "y", "l", "e", "s", "/", "s", "t", "y", "l", "e", "s", ".", "c", "s", "s">>
StylesCss == <<"/", "s", "t", "y", "l", "e", "s", ".", "c", "s", "s">>
IndexHtml == <<"i", "n", "d", "e", "x", ".", "h", "t", "m", "l">>
SitemapPath == <<"s", "i", "t", "e", "m", "a", "p", ".", "x", "m", "l">>

\* const localePrefix = locale ? `/${locale}` : "";
LocalePrefix(locale) == IF Truthy(locale) THEN <<"/">> \o locale.s ELSE <<>>

\* const pagePermalink = `${localePrefix}${page.permalink}`;
PagePermalink(page, locale) == LocalePrefix(locale) \o page.permalink

\* PageUrl with a fault: the scheme and host are prefixed unconditionally.
PageUrlAlways(s, pagePermalink) == Https \o OrEmpty(s.site.hostname) \o pagePermalink

\* const pageUrl = siteHostname ? `https://${hostname}${pagePermalink}` : pagePermalink;
PageUrl(s, pagePermalink) ==
    IF Truthy(s.site.hostname)
    THEN Https \o s.site.hostname.s \o pagePermalink
    ELSE pagePermalink

\* [page.title, siteTitle].join(" - "): undefined joins as the empty string.
JoinTitle(page, s) == page.title \o <<" ", "-", " ">> \o OrEmpty(s.site.title)

\* StyleReferences with a fault: the home page is not told apart.
StyleReferencesNoHome(pagePermalink) == <<GlobalStylePath, pagePermalink \o StylesCss>>

StyleReferences(pagePermalink) ==
    <<GlobalStylePath,
      IF pagePermalink = <<"/">> THEN StylesCss ELSE pagePermalink \o StylesCss>>

OpenGraphType(page) == IF page.permalink = <<"/">> THEN "website" ELSE "article"

\* if (page.jsonLd) { try { htmlPage.linkedData = JSON.parse(page.jsonLd) } catch { console.log } }
\* The optional field is a sequence of at most one value.
ParseThrows(page) == Truthy(page.jsonLd) /\ ~IsJson(page.jsonLd.s)

LinkedData(page) ==
    IF Truthy(page.jsonLd) /\ IsJson(page.jsonLd.s)
    THEN <<JsonParse(page.jsonLd.s)>>
    ELSE <<>>

\* The HtmlPage literal of renderAndUpload, with linkedData set after it.
HtmlPage(s, page, locale) ==
    [title |-> JoinTitle(page, s),
     permalink |-> PagePermalink(page, locale),
     url |-> PageUrl(s, PagePermalink(page, locale)),
     siteHostName |-> s.site.hostname,
     styleReferences |-> StyleReferences(PagePermalink(page, locale)),
     openGraphType |-> OpenGraphType(page),
     navigationPath |-> PagePermalink(page, locale),
     locale |-> locale,
     linkedData |-> LinkedData(page),
     faviconPermalink |-> <<>>]

\* UploadPath with a fault: the separator is appended unconditionally.
UploadPathAlwaysSlash(pagePermalink) == pagePermalink \o <<"/">> \o IndexHtml

\* if (!permalink.endsWith("/")) permalink += "/";  permalink = `${permalink}index.html`;
UploadPath(pagePermalink) ==
    (IF EndsWith(pagePermalink, <<"/">>) THEN pagePermalink ELSE pagePermalink \o <<"/">>)
        \o IndexHtml

\* The message of the error renderHtml or minify failed with.
CauseMessage == <<"o", "o", "p", "s">>

\* throw new Error(`Unable to reneder page ${page.title}: ${error.message}`);
UnableTo == <<"U", "n", "a", "b", "l", "e", " ", "t", "o", " ",
              "r", "e", "n", "e", "d", "e", "r", " ", "p", "a", "g", "e", " ">>

RenderError(task, title, cause) ==
    Err("renderPage", task, UnableTo \o title \o <<":", " ">> \o cause)

\* HtmlContent with a fault: the document carries a stamp of the moment it is
\* produced (the number of blobs uploaded before it).
HtmlContentStamped(htmlPage) == [html |-> htmlPage, stamp |-> Cardinality(blobs)]

\* The minified document of a render context (the renderer is deterministic).
HtmlContent(htmlPage) == [html |-> htmlPage]

----------------------------------------------------------------------------
(* publish: the values it computes *)

\* LocaleCode with a fault: the default locale keeps its code.
LocaleCodeAlways(code, default) == Str(code)

\* const localeCode = locale.code === defaultLocale ? null : locale.code;
LocaleCode(code, default) == IF code = default THEN Null ELSE Str(code)

\* sitemapBuilder.appendPermalink(`${localeCode || ""}${page.permalink}`)
SitemapEntry(page, localeCode) == OrEmpty(localeCode) \o page.permalink

\* The call renderAndUpload(settings, page, indexer, locale) up to its first
\* await: the permalink is computed and getPageContent(page.key, locale) is called.
NewTask(page, locale) ==
    [page |-> page,
     locale |-> locale,
     pagePermalink |-> PagePermalink(page, locale),
     contentLocale |-> locale,
     pc |-> "getPageContent",
     error |-> NoError,
     htmlPage |-> <<>>]

\* Launch with a fault: the first page of every search result is skipped.
LaunchSkippingFirst(pages, locale) ==
    [k \in 1..(IF Len(pages) > 0 THEN Len(pages) - 1 ELSE 0) |-> NewTask(pages[k + 1], locale)]

\* One pass of `for (const page of pages)`.
Launch(pages, locale) == [k \in 1..Len(pages) |-> NewTask(pages[k], locale)]

\* Register with a fault: the entries of one search result are appended last
\* page first.
RegisterReversed(pages, localeCode) ==
    [k \in 1..Len(pages) |-> SitemapEntry(pages[Len(pages) + 1 - k], localeCode)]

Register(pages, localeCode) == [k \in 1..Len(pages) |-> SitemapEntry(pages[k], localeCode)]

Tasks == 1..Len(results)

Rejected(rs) == {i \in 1..Len(rs) : rs[i].pc = "rejected"}

AllFulfilled(rs) == \A i \in 1..Len(rs) : rs[i].pc = "fulfilled"

Min(S) == CHOOSE x \in S : \A y \in S : x <= y

----------------------------------------------------------------------------
(* How publish() joins its tasks and settles *)

\* catch (error) { this.logger.traceError(error, "Page publisher"); }
Caught(error) == log \cup {LogEntry(error, "Page publisher")}

\* `await Promise.all(results)` as met when the loops end with the tasks in
\* states rs: it rejects with the rejection of the first rejected entry,
\* resolves when every entry is fulfilled, and is pending otherwise.  Resolved,
\* publish() builds the sitemap and calls uploadBlob("sitemap.xml", ...).
\* JoinPc with a fault: the wait ends with the first task fulfilled.
JoinPcFirstFulfilled(rs) ==
    IF Rejected(rs) # {} THEN "returned"
    ELSE IF rs = <<>> \/ \E i \in 1..Len(rs) : rs[i].pc = "fulfilled" THEN "uploadSitemap"
    ELSE "awaitAll"

JoinPc(rs) ==
    IF Rejected(rs) # {} THEN "returned"
    ELSE IF AllFulfilled(rs) THEN "uploadSitemap"
    ELSE "awaitAll"

JoinLog(rs) ==
    IF Rejected(rs) # {} THEN Caught(rs[Min(Rejected(rs))].error) ELSE log

\* Reject with a fault: a rejection cancels the tasks still in flight.
RejectCancelling(i, e) ==
    /\ results' = [k \in 1..Len(results) |->
            IF k = i THEN [results[k] EXCEPT !.pc = "rejected", !.error = e]
            ELSE IF results[k].pc \in {"fulfilled", "rejected"} THEN results[k]
            ELSE [results[k] EXCEPT !.pc = "cancelled"]]
    /\ IF pc = "awaitAll"
       THEN pc' = "returned" /\ log' = log \cup {LogEntry(e, "Page publisher")}
       ELSE UNCHANGED <<pc, log>>

\* Task i settles as rejected with error e.  A pending Promise.all rejects with
\* it and publish() catches and logs it; a settled one ignores it.
Reject(i, e) ==
    /\ results' = [results EXCEPT ![i].pc = "rejected", ![i].error = e]
    /\ IF pc = "awaitAll"
       THEN pc' = "returned" /\ log' = Caught(e)
       ELSE UNCHANGED <<pc, log>>

\* The environment of PagesWorkshop.
PageContract(key, title) == [key |-> key, title |-> title]

\* The pages of the page service when the workshop is mounted.
StoredPages == <<PageContract(1, <<"a">>), PageContract(2, <<"b">>)>>

\* "New page", the title addPage passes to createPage.
NewPageTitle == <<"N", "e", "w", " ", "p", "a", "g", "e">>

\* The values the user types into the search box.
Patterns == {<<>>, <<"a">>, <<"b">>}

\* pattern occurs in title.
Contains(title, pattern) ==
    \E k \in 0..Len(title) :
        /\ k + Len(pattern) <= Len(title)
        /\ SubSeq(title, k + 1, k + Len(pattern)) = pattern

\* PagesWorkshop constructor: pages empty, nothing selected, searchPattern "",
\* working true.
Constructed ==
    /\ initializePc = "constructed"
    /\ searchPattern = <<>>
    /\ notifiedPattern = <<>>
    /\ workshopPages = <<>>
    /\ working = TRUE
    /\ selectedPage = <<>>
    /\ view = <<>>
    /\ searches = <<>>
    /\ store = StoredPages
    /\ addPageCalls = 0
    /\ created = 0

Init ==
    /\ pc = "getLocales"
    /\ site \in Sites
    /\ locales = <<>>
    /\ defaultLocale = <<>>
    /\ settings = NoSettings
    /\ media = "unused"
    /\ li = 0
    /\ results = <<>>
    /\ sitemap = <<>>
    /\ indexer = {}
    /\ localStyles = EmptyBag
    /\ globalStyle = FALSE
    /\ blobs = {}
    /\ log = {}
    /\ thrown = NoError
    /\ Constructed

----------------------------------------------------------------------------
(* publish() *)

\* The number of tasks a run over locale list ls launches.
TaskCount(ls) == Len(site) * (IF Len(ls) > 0 THEN Len(ls) ELSE 1)

\* const locales = await this.localeService.getLocales();
GetLocalesResolved ==
    /\ pc = "getLocales"
    /\ \E ls \in LocaleLists :
        /\ TaskCount(ls) <= MaxTasks
        /\ locales' = ls
    /\ pc' = "getDefaultLocale"
    /\ UNCHANGED <<site, defaultLocale, settings, media, li, results, sitemap, indexer,
                   localStyles, globalStyle, blobs, log, thrown>>
    /\ UNCHANGED workshopVars

\* const defaultLocale = await this.localeService.getDefaultLocale();
GetDefaultLocaleResolved ==
    /\ pc = "getDefaultLocale"
    /\ defaultLocale' = DefaultLocale
    /\ pc' = "getStyleSheet"
    /\ UNCHANGED <<site, locales, settings, media, li, results, sitemap, indexer,
                   localStyles, globalStyle, blobs, log, thrown>>
    /\ UNCHANGED workshopVars

\* const globalStyleSheet = await this.styleCompiler.getStyleSheet();
\* this.localStyleBuilder.buildGlobalStyle(globalStyleSheet);
\* try { ... const settings = await this.siteService.getSiteSettings();
GetStyleSheetResolved ==
    /\ pc = "getStyleSheet"
    /\ globalStyle' = TRUE
    /\ pc' = "getSiteSettings"
    /\ UNCHANGED <<site, locales, defaultLocale, settings, media, li, results, sitemap,
                   indexer, localStyles, blobs, log, thrown>>
    /\ UNCHANGED workshopVars

\* The three awaits before `try`: a rejection leaves publish() as its own
\* rejection; nothing catches or logs it.
PreambleRejected ==
    /\ pc \in {"getLocales", "getDefaultLocale", "getStyleSheet"}
    /\ thrown' = Err(pc, 0, <<>>)
    /\ pc' = "threw"
    /\ UNCHANGED <<site, locales, defaultLocale, settings, media, li, results, sitemap,
                   indexer, localStyles, globalStyle, blobs, log>>
    /\ UNCHANGED workshopVars

\* getSiteSettings resolves; the builders are created; the first search is
\* called: search("", localeCode) for the first locale, or search("") when the
\* locale list is empty (li = 0).
GetSiteSettingsResolved ==
    /\ pc = "getSiteSettings"
    /\ \E s \in SettingsSet :
        /\ settings' = s
        /\ media' \in MediaStates(s)
    /\ li' = IF Len(locales) > 0 THEN 1 ELSE 0
    /\ pc' = "search"
    /\ UNCHANGED <<site, locales, defaultLocale, results, sitemap, indexer,
                   localStyles, globalStyle, blobs, log, thrown>>
    /\ UNCHANGED workshopVars

\* A rejection inside `try` (getSiteSettings, search): caught and logged.
\* Tasks already launched stay in flight.
TryRejected ==
    /\ pc \in {"getSiteSettings", "search"}
    /\ log' = Caught(Err(pc, 0, <<>>))
    /\ pc' = "returned"
    /\ UNCHANGED <<site, locales, defaultLocale, settings, media, li, results, sitemap,
                   indexer, localStyles, globalStyle, blobs, thrown>>
    /\ UNCHANGED workshopVars

\* `await this.pageService.search("", localeCode)` resolves with the site's
\* pages; the inner for loop launches a task and registers a sitemap entry for
\* each; then the next locale's search is called, or Promise.all is awaited.
SearchResolved ==
    /\ pc = "search"
    /\ LET localeCode == IF li = 0 THEN Undefined
                         ELSE LocaleCode(locales[li], defaultLocale)
           rs == results \o Launch(site, localeCode)
       IN /\ results' = rs
          /\ sitemap' = sitemap \o Register(site, localeCode)
          /\ IF li > 0 /\ li < Len(locales)
             THEN /\ li' = li + 1
                  /\ UNCHANGED <<pc, log>>
             ELSE /\ pc' = JoinPc(rs)
                  /\ log' = JoinLog(rs)
                  /\ UNCHANGED li
    /\ UNCHANGED <<site, locales, defaultLocale, settings, media, indexer, localStyles,
                   globalStyle, blobs, thrown>>
    /\ UNCHANGED workshopVars

\* await this.outputBlobStorage.uploadBlob("sitemap.xml", contentBytes, "text/xml");
SitemapUploaded ==
    /\ pc = "uploadSitemap"
    /\ blobs' = blobs \cup {[path |-> SitemapPath,
                             content |-> [hostname |-> settings.site.hostname,
                                          permalinks |-> sitemap],
                             contentType |-> "text/xml"]}
    /\ pc' = "returned"
    /\ UNCHANGED <<site, locales, defaultLocale, settings, media, li, results, sitemap,
                   indexer, localStyles, globalStyle, log, thrown>>
    /\ UNCHANGED workshopVars

SitemapUploadRejected ==
    /\ pc = "uploadSitemap"
    /\ log' = Caught(Err("uploadBlob", 0, SitemapPath))
    /\ pc' = "returned"
    /\ UNCHANGED <<site, locales, defaultLocale, settings, media, li, results, sitemap,
                   indexer, localStyles, globalStyle, blobs, thrown>>
    /\ UNCHANGED workshopVars

----------------------------------------------------------------------------
(* renderAndUpload(settings, page, indexer, locale), task i of results *)

\* ContentResolved with a fault: JSON.parse is not guarded by try/catch.
ContentResolvedUnguarded(i) ==
    /\ results[i].pc = "getPageContent"
    /\ LET t == results[i]
       IN IF ParseThrows(t.page)
          THEN Reject(i, Err("JSON.parse", i, t.page.jsonLd.s))
          ELSE /\ results' = [results EXCEPT
                    ![i].htmlPage = <<HtmlPage(settings, t.page, t.locale)>>,
                    ![i].pc = IF Truthy(settings.site.faviconSourceKey)
                              THEN "getMediaByKey" ELSE "renderHtml"]
               /\ UNCHANGED <<pc, log>>
    /\ UNCHANGED <<site, locales, defaultLocale, settings, media, li, sitemap, indexer,
                   localStyles, globalStyle, blobs, thrown>>
    /\ UNCHANGED workshopVars

\* getPageContent resolves; the render context is built and linked data parsed;
\* then the favicon is looked up if a source key is set, else the page rendered.
ContentResolved(i) ==
    /\ results[i].pc = "getPageContent"
    /\ LET t == results[i]
       IN /\ results' = [results EXCEPT
                ![i].htmlPage = <<HtmlPage(settings, t.page, t.locale)>>,
                ![i].pc = IF Truthy(settings.site.faviconSourceKey)
                          THEN "getMediaByKey" ELSE "renderHtml"]
          /\ log' = IF ParseThrows(t.page)
                    THEN log \cup {LogEntry(Err("JSON.parse", i, t.page.jsonLd.s),
                                            "Unable to parse page linked data: ")}
                    ELSE log
    /\ UNCHANGED <<pc, site, locales, defaultLocale, settings, media, li, sitemap, indexer,
                   localStyles, globalStyle, blobs, thrown>>
    /\ UNCHANGED workshopVars

ContentRejected(i) ==
    /\ results[i].pc = "getPageContent"
    /\ Reject(i, Err("getPageContent", i, <<results[i].page.key>>))
    /\ UNCHANGED <<site, locales, defaultLocale, settings, media, li, sitemap, indexer,
                   localStyles, globalStyle, blobs, thrown>>
    /\ UNCHANGED workshopVars

\* getMediaByKey resolves with a media object or with nothing.
MediaResolved(i) ==
    /\ results[i].pc = "getMediaByKey"
    /\ media \in {"found", "missing"}
    /\ results' = [results EXCEPT
            ![i].htmlPage = <<[results[i].htmlPage[1] EXCEPT !.faviconPermalink =
                                IF media = "found" THEN <<FaviconPermalink>> ELSE <<>>]>>,
            ![i].pc = "renderHtml"]
    /\ UNCHANGED <<pc, site, locales, defaultLocale, settings, media, li, sitemap, indexer,
                   localStyles, globalStyle, blobs, log, thrown>>
    /\ UNCHANGED workshopVars

\* catch (error) { this.logger.traceError(error, "Could not retrieve favicon."); }
MediaRejected(i) ==
    /\ results[i].pc = "getMediaByKey"
    /\ media = "fails"
    /\ results' = [results EXCEPT ![i].pc = "renderHtml"]
    /\ log' = log \cup {LogEntry(Err("getMediaByKey", i, FaviconKey),
                                 "Could not retrieve favicon.")}
    /\ UNCHANGED <<pc, site, locales, defaultLocale, settings, media, li, sitemap, indexer,
                   localStyles, globalStyle, blobs, thrown>>
    /\ UNCHANGED workshopVars

\* LocalStyleCall with a fault: one StyleManager serves every task.
LocalStyleCallShared(i) == [scope |-> results[i].pagePermalink, styleManager |-> 1]

\* const styleManager = new StyleManager(); ...
\* this.localStyleBuilder.buildLocalStyle(pagePermalink, styleManager.getAllStyleSheets());
\* The StyleManager task i creates is named by i.
LocalStyleCall(i) == [scope |-> results[i].pagePermalink, styleManager |-> i]

\* RenderResolved with a fault: the page is not appended to the search index.
RenderResolvedNoIndex(i) ==
    /\ results[i].pc = "renderHtml"
    /\ localStyles' = localStyles (+) SetToBag({LocalStyleCall(i)})
    /\ results' = [results EXCEPT ![i].pc = "uploadBlob"]
    /\ UNCHANGED <<pc, site, locales, defaultLocale, settings, media, li, sitemap,
                   indexer, globalStyle, blobs, log, thrown>>
    /\ UNCHANGED workshopVars

\* renderHtml resolves and minify returns; the local style is built from the
\* task's own StyleManager, the page appended to the index, uploadBlob called.
RenderResolved(i) ==
    /\ results[i].pc = "renderHtml"
    /\ LET t == results[i]
           h == t.htmlPage[1]
       IN /\ localStyles' = localStyles (+) SetToBag({LocalStyleCall(i)})
          /\ indexer' = indexer \cup
                {[permalink |-> t.pagePermalink, title |-> h.title, task |-> i]}
    /\ results' = [results EXCEPT ![i].pc = "uploadBlob"]
    /\ UNCHANGED <<pc, site, locales, defaultLocale, settings, media, li, sitemap,
                   globalStyle, blobs, log, thrown>>
    /\ UNCHANGED workshopVars

\* renderHtml rejects or minify throws: the catch block of renderPage wraps
\* either error alike and rethrows it under the page's title.
RenderRejected(i) ==
    /\ results[i].pc = "renderHtml"
    /\ Reject(i, RenderError(i, results[i].htmlPage[1].title, CauseMessage))
    /\ UNCHANGED <<site, locales, defaultLocale, settings, media, li, sitemap, indexer,
                   localStyles, globalStyle, blobs, thrown>>
    /\ UNCHANGED workshopVars

\* uploadBlob(uploadPath, contentBytes, "text/html") resolves: the task is
\* fulfilled; if it was the last one Promise.all was waiting for, publish()
\* goes on to upload the sitemap.
UploadResolved(i) ==
    /\ results[i].pc = "uploadBlob"
    /\ LET t == results[i]
           rs == [results EXCEPT ![i].pc = "fulfilled"]
       IN /\ blobs' = blobs \cup {[path |-> UploadPath(t.pagePermalink),
                                   content |-> HtmlContent(t.htmlPage[1]),
                                   contentType |-> "text/html"]}
          /\ results' = rs
          /\ pc' = IF pc = "awaitAll" THEN JoinPc(rs) ELSE pc
    /\ UNCHANGED <<site, locales, defaultLocale, settings, media, li, sitemap, indexer,
                   localStyles, globalStyle, log, thrown>>
    /\ UNCHANGED workshopVars

UploadRejected(i) ==
    /\ results[i].pc = "uploadBlob"
    /\ Reject(i, Err("uploadBlob", i, UploadPath(results[i].pagePermalink)))
    /\ UNCHANGED <<site, locales, defaultLocale, settings, media, li, sitemap, indexer,
                   localStyles, globalStyle, blobs, thrown>>
    /\ UNCHANGED workshopVars

TaskStep(i) ==
    \/ ContentResolved(i)
    \/ ContentRejected(i)
    \/ MediaResolved(i)
    \/ MediaRejected(i)
    \/ RenderResolved(i)
    \/ RenderRejected(i)
    \/ UploadResolved(i)
    \/ UploadRejected(i)

Next ==
    \/ GetLocalesResolved
    \/ GetDefaultLocaleResolved
    \/ GetStyleSheetResolved
    \/ PreambleRejected
    \/ GetSiteSettingsResolved
    \/ TryRejected
    \/ SearchResolved
    \/ SitemapUploaded
    \/ SitemapUploadRejected
    \/ \E i \in Tasks : ContentResolved(i)
    \/ \E i \in Tasks : ContentRejected(i)
    \/ \E i \in Tasks : MediaResolved(i)
    \/ \E i \in Tasks : MediaRejected(i)
    \/ \E i \in Tasks : RenderResolved(i)
    \/ \E i \in Tasks : RenderRejected(i)
    \/ \E i \in Tasks : UploadResolved(i)
    \/ \E i \in Tasks : UploadRejected(i)

Spec == Init /\ [][Next]_vars

\* Task i, when there is one.
TaskStepAt(i) == i \in Tasks /\ TaskStep(i)

\* Runs over the sites of at most MaxFairPages pages.
FairInit == Init /\ Len(site) <= MaxFairPages

\* Every collaborator call of a task in flight is answered, with success or
\* with failure.
FairSpec == FairInit /\ [][Next]_vars /\ \A i \in 1..MaxTasks : WF_vars(TaskStepAt(i))

----------------------------------------------------------------------------
(* Vocabulary of the properties *)

\* A failure of one of publish()'s own calls was caught at the top level.
TopLevelFailure == \E entry \in log : entry.label = "Page publisher" /\ entry.error.task = 0

\* Both loops ran to their end and Promise.all was called.
LoopsEnded ==
    \/ pc \in {"awaitAll", "uploadSitemap"}
    \/ pc = "returned" /\ ~\E entry \in log : entry.error.src \in {"getSiteSettings", "search"}

InFlight(i) == results[i].pc \in {"getPageContent", "getMediaByKey", "renderHtml", "uploadBlob"}

\* The render (renderPage) of task i returned its document.
Rendered(i) ==
    \/ results[i].pc \in {"uploadBlob", "fulfilled"}
    \/ results[i].pc = "rejected" /\ results[i].error.src = "uploadBlob"

\* Task i ended by a failure of one of its own collaborator calls.
OwnFailure(i) ==
    /\ results[i].pc = "rejected"
    /\ results[i].error.task = i
    /\ results[i].error.src \in {"getPageContent", "renderPage", "uploadBlob"}

Uploaded(i) ==
    /\ results[i].pc = "fulfilled"
    /\ \E b \in blobs : /\ b.path = UploadPath(results[i].pagePermalink)
                        /\ b.contentType = "text/html"

SitemapBlobs == {b \in blobs : b.path = SitemapPath}

PublishLogged(e) == LogEntry(e, "Page publisher") \in log

----------------------------------------------------------------------------
(* C1 *)

\* C1: publish() never rejects to its caller, whichever collaborator call fails.
C1_PublishNeverThrows == pc # "threw"

----------------------------------------------------------------------------
(* C2 *)

\* C2: when publish() has returned from a run in which exactly one task failed,
\* every other task succeeded and no call of publish() itself failed, sitemap.xml
\* has been uploaded and lists the entries of the sibling pages.
C2_SitemapDespiteOneFailure ==
    ( /\ pc = "returned"
      /\ ~TopLevelFailure
      /\ Len(results) >= 2
      /\ Cardinality(Rejected(results)) = 1
      /\ \A i \in Tasks : results[i].pc \in {"fulfilled", "rejected"} )
    => \E b \in SitemapBlobs :
          \A i \in Tasks \ Rejected(results) :
              \E k \in 1..Len(b.content.permalinks) : b.content.permalinks[k] = sitemap[i]

----------------------------------------------------------------------------
(* C3 *)

\* C3: a launched task is never cancelled by a sibling's failure: it eventually
\* uploads its index.html unless one of its own collaborator calls fails.
C3_SiblingsNotCancelled ==
    \A i \in 1..MaxTasks :
        (i \in Tasks) ~> (i \in Tasks /\ (Uploaded(i) \/ OwnFailure(i)))

\* A task failed, publish() returned on that failure, and a sibling launched in
\* the same run has uploaded its page.
C3_Witness ==
    \E i \in Tasks, j \in Tasks :
        /\ i # j
        /\ OwnFailure(i)
        /\ pc = "returned"
        /\ PublishLogged(results[i].error)
        /\ Uploaded(j)

----------------------------------------------------------------------------
(* C4 *)

\* C4: when publish() has returned, the sitemap and the search index each hold
\* exactly the pages whose render succeeded (entry i of the sitemap is the one
\* registered with task i).
C4_AccumulatorsExactlyRendered ==
    (pc = "returned" /\ ~TopLevelFailure) =>
        \A i \in Tasks :
            /\ Rendered(i) <=> (\E d \in indexer : d.task = i)
            /\ Rendered(i) <=> (i <= Len(sitemap))

----------------------------------------------------------------------------
(* C5 *)

\* C5: once the run is over (publish() returned, every task settled), the named
\* error of every page whose render or minify failed has been logged.
C5_EveryRenderErrorLogged ==
    ( /\ pc = "returned"
      /\ ~TopLevelFailure
      /\ \A i \in Tasks : ~InFlight(i) )
    => \A i \in Tasks :
          (results[i].pc = "rejected" /\ results[i].error.src = "renderPage")
              => PublishLogged(results[i].error)

----------------------------------------------------------------------------
(* C6 *)

\* The locale arguments the run passes for its locale list.
RunLocales ==
    IF Len(locales) > 0
    THEN {LocaleCode(locales[k], defaultLocale) : k \in 1..Len(locales)}
    ELSE {Undefined}

TasksFor(key, locale) ==
    {i \in Tasks : results[i].page.key = key /\ results[i].locale = locale}

\* C6: no (page, locale) pair ever has two tasks, and once the loops have ended
\* every page of the site has exactly one task for every locale of the run (one
\* task per page when the locale list is empty).
C6_OneTaskPerPair ==
    /\ \A i \in Tasks, j \in Tasks :
          (results[i].page.key = results[j].page.key /\ results[i].locale = results[j].locale)
              => i = j
    /\ LoopsEnded =>
          /\ \A p \in 1..Len(site) : \A l \in RunLocales :
                Cardinality(TasksFor(site[p].key, l)) = 1
          /\ Len(results) = Len(site) * Cardinality(RunLocales)

\* A localized run over two locales and two pages has launched its four tasks.
C6_Witness ==
    /\ LoopsEnded
    /\ Len(locales) = 2
    /\ Len(site) = 2
    /\ Len(results) = 4

----------------------------------------------------------------------------
(* C7 *)

\* The locale list entry task i was launched for (tasks are launched locale by
\* locale, one per page of the site).
LocaleOfTask(i) == locales[((i - 1) \div Len(site)) + 1]

Prefixed(i, prefix) ==
    /\ results[i].pagePermalink = prefix \o results[i].page.permalink
    /\ results[i].htmlPage # <<>> =>
          /\ results[i].htmlPage[1].permalink = prefix \o results[i].page.permalink
          /\ results[i].htmlPage[1].navigationPath = prefix \o results[i].page.permalink
    /\ Uploaded(i) =>
          \E b \in blobs : b.content = HtmlContent(results[i].htmlPage[1])
                           /\ b.content.html.permalink = prefix \o results[i].page.permalink

\* C7: a task of the default locale, or of an unlocalized run, renders and
\* uploads under the page's own permalink and fetches content with a null
\* (unlocalized: absent) locale; a task of any other locale renders under
\* "/" + code + permalink and fetches content for that code.
C7_LocalePrefix ==
    \A i \in Tasks :
        IF Len(locales) = 0
        THEN Prefixed(i, <<>>) /\ results[i].contentLocale = Undefined
        ELSE IF LocaleOfTask(i) = defaultLocale
             THEN Prefixed(i, <<>>) /\ results[i].contentLocale = Null
             ELSE /\ Prefixed(i, <<"/">> \o LocaleOfTask(i))
                  /\ results[i].contentLocale = Str(LocaleOfTask(i))

\* A run over the default locale and "fr" has uploaded a page of each.
C7_Witness ==
    /\ Len(locales) = 2
    /\ \E i \in Tasks, j \in Tasks :
          /\ LocaleOfTask(i) = defaultLocale /\ Uploaded(i)
          /\ LocaleOfTask(j) = fr /\ Uploaded(j)
          /\ results[j].pagePermalink = <<"/", "f", "r">> \o results[j].page.permalink

----------------------------------------------------------------------------
(* C8 *)

\* C8: the sitemap entry registered with task i is the permalink task i renders
\* and uploads under.
C8_SitemapEntryIsPermalink ==
    \A i \in Tasks : i <= Len(sitemap) /\ sitemap[i] = results[i].pagePermalink

----------------------------------------------------------------------------
(* C9 *)

\* C9: a task fails only by getPageContent, renderPage or uploadBlob; a malformed
\* jsonLd leaves the render context without linkedData and a failing favicon
\* lookup leaves it without faviconPermalink; neither error reaches publish()'s
\* caller or its catch block.
C9_OptionalStepsNeverFail ==
    /\ \A i \in Tasks :
          /\ results[i].pc \in {"getPageContent", "getMediaByKey", "renderHtml",
                                "uploadBlob", "fulfilled", "rejected"}
          /\ results[i].pc = "rejected" => OwnFailure(i)
          /\ (ParseThrows(results[i].page) /\ results[i].htmlPage # <<>>)
                => results[i].htmlPage[1].linkedData = <<>>
          /\ (media = "fails" /\ results[i].htmlPage # <<>>)
                => results[i].htmlPage[1].faviconPermalink = <<>>
    /\ thrown.src \notin {"JSON.parse", "getMediaByKey"}
    /\ \A entry \in log :
          entry.error.src \in {"JSON.parse", "getMediaByKey"} => entry.label # "Page publisher"

\* A page with malformed jsonLd, in a run whose favicon lookup fails, has been
\* uploaded, its document rendered without linkedData and faviconPermalink.
C9_Witness ==
    \E i \in Tasks :
        /\ ParseThrows(results[i].page)
        /\ media = "fails"
        /\ results[i].pc = "fulfilled"
        /\ \E b \in blobs :
              /\ b.path = UploadPath(results[i].pagePermalink)
              /\ b.content.html.linkedData = <<>>
              /\ b.content.html.faviconPermalink = <<>>

----------------------------------------------------------------------------
(* C10 *)

Last(s) == s[Len(s)]

HtmlBlobs == {b \in blobs : b.contentType = "text/html"}

\* C10: every uploaded document lies at its permalink followed by "index.html",
\* with one "/" inserted between them exactly when the permalink does not end
\* in "/".
C10_UploadPath ==
    \A b \in HtmlBlobs :
        LET p == b.content.html.permalink
        IN IF Len(p) > 0 /\ Last(p) = "/"
           THEN b.path = p \o IndexHtml
           ELSE /\ b.path = p \o <<"/">> \o IndexHtml
                /\ Len(b.path) = Len(p) + 1 + Len(IndexHtml)

\* Documents of a permalink ending in "/" and of one not ending in "/" have
\* been uploaded.
C10_Witness ==
    \E b \in HtmlBlobs, c \in HtmlBlobs :
        /\ Last(b.content.html.permalink) = "/"
        /\ Len(b.path) = Len(b.content.html.permalink) + Len(IndexHtml)
        /\ Last(c.content.html.permalink) # "/"
        /\ Len(c.path) = Len(c.content.html.permalink) + 1 + Len(IndexHtml)

----------------------------------------------------------------------------
(* C11 *)

\* The tasks whose render context has been built.
Built == {i \in Tasks : results[i].htmlPage # <<>>}

\* C11: the openGraph type of every render context is "website" when the
\* context's permalink is "/" and "article" for every other permalink.
C11_OpenGraphByContextPermalink ==
    \A i \in Built :
        results[i].htmlPage[1].openGraphType =
            IF results[i].htmlPage[1].permalink = <<"/">> THEN "website" ELSE "article"

----------------------------------------------------------------------------
(* C12 *)

\* C12: the style references of every render context are the global path and
\* one local path: "/styles.css" when the context's permalink is "/", the
\* permalink followed by "/styles.css" otherwise.
C12_StyleReferences ==
    \A i \in Built :
        LET h == results[i].htmlPage[1]
        IN /\ Len(h.styleReferences) = 2
           /\ h.styleReferences[1] = GlobalStylePath
           /\ h.permalink = <<"/">> => h.styleReferences[2] = StylesCss
           /\ h.permalink # <<"/">> => h.styleReferences[2] = h.permalink \o StylesCss

\* A run has built the context of the home page and that of a page under the
\* "fr" prefix.
C12_Witness ==
    \E i \in Built, j \in Built :
        /\ results[i].htmlPage[1].permalink = <<"/">>
        /\ results[i].htmlPage[1].styleReferences[2] = StylesCss
        /\ results[j].locale = Str(fr)
        /\ results[j].htmlPage[1].styleReferences[2] = results[j].pagePermalink \o StylesCss

----------------------------------------------------------------------------
(* C13 *)

HostnameSet == settings.site.hostname.t = "string" /\ settings.site.hostname.s # <<>>

\* C13: the url of every render context is its permalink when the hostname is
\* absent or empty and "https://" + hostname + permalink otherwise, and no task
\* fails but by getPageContent, renderPage or uploadBlob.
C13_PageUrl ==
    \A i \in Tasks :
        /\ results[i].pc = "rejected" => OwnFailure(i)
        /\ i \in Built =>
              LET h == results[i].htmlPage[1]
              IN IF HostnameSet
                 THEN h.url = Https \o settings.site.hostname.s \o h.permalink
                 ELSE h.url = h.permalink

\* In a run without hostname a page has been uploaded, its url its permalink.
C13_Witness ==
    \E i \in Tasks :
        /\ settings.site.hostname = Undefined
        /\ Uploaded(i)
        /\ results[i].htmlPage[1].url = results[i].pagePermalink

----------------------------------------------------------------------------
(* C14 *)

\* The inputs of task i: tasks are launched locale by locale, page by page.
PageOfTask(i) == site[((i - 1) % Len(site)) + 1]

LocaleArgOfTask(i) ==
    IF Len(locales) = 0 THEN Undefined ELSE LocaleCode(LocaleOfTask(i), defaultLocale)

\* The document a run over these inputs uploads for task i, from the inputs
\* alone: the pages, the locales, the settings and the media service's answer.
ExpectedBlob(i) ==
    [path |-> UploadPath(PagePermalink(PageOfTask(i), LocaleArgOfTask(i))),
     content |-> [html |-> [HtmlPage(settings, PageOfTask(i), LocaleArgOfTask(i))
                                EXCEPT !.faviconPermalink =
                                    IF media = "found" THEN <<FaviconPermalink>> ELSE <<>>]],
     contentType |-> "text/html"]

\* C14: the set of (path, document) pairs a run uploads when all its tasks
\* succeed is a function of the run's inputs alone, whatever the order in which
\* the tasks' calls completed; two runs over the same inputs upload the same set.
C14_UploadsDeterminedByInputs ==
    (LoopsEnded /\ AllFulfilled(results)) =>
        HtmlBlobs = {ExpectedBlob(i) : i \in 1..TaskCount(locales)}

\* A run of four tasks over two locales has uploaded all its documents.
C14_Witness ==
    /\ LoopsEnded
    /\ Len(locales) = 2
    /\ Len(results) = 4
    /\ AllFulfilled(results)
    /\ Cardinality(HtmlBlobs) = 4

----------------------------------------------------------------------------
(* C15 *)

\* C15: when publish() has settled (no call of its own having failed), no task
\* it launched is still in flight.
C15_NoTaskInFlightAfterReturn ==
    (pc \in {"returned", "threw"} /\ ~TopLevelFailure) =>
        \A i \in Tasks : ~InFlight(i)

----------------------------------------------------------------------------
(* C16 *)

\* C16: while sitemap.xml is being uploaded and once it is, every task of the
\* run has uploaded its index.html; the sitemap is uploaded at most once, as the
\* last step of publish().
C16_SitemapAfterAllPages ==
    /\ (pc = "uploadSitemap" \/ SitemapBlobs # {}) =>
          /\ Len(results) = TaskCount(locales)
          /\ \A i \in Tasks : Uploaded(i)
    /\ Cardinality(SitemapBlobs) <= 1
    /\ SitemapBlobs # {} => pc = "returned"

\* sitemap.xml has been uploaded in a run of four tasks.
C16_Witness ==
    /\ SitemapBlobs # {}
    /\ Len(results) = 4
    /\ \A i \in Tasks : Uploaded(i)

----------------------------------------------------------------------------
(* C17 *)

\* The sitemap entry of the k-th scheduled (locale, page) pair, in the order
\* of the enumeration: locales in list order, pages in search-result order.
ExpectedEntry(k) == SitemapEntry(PageOfTask(k), LocaleArgOfTask(k))

\* C17: the sitemap always holds the entries of the pairs scheduled so far, one
\* each, in the order of the enumeration; once the loops have ended it holds
\* one entry per pair, and the uploaded sitemap.xml lists exactly these, in
\* every interleaving.
C17_SitemapInEnumerationOrder ==
    /\ Len(sitemap) = Len(results)
    /\ Len(sitemap) <= TaskCount(locales)
    /\ \A k \in 1..Len(sitemap) : sitemap[k] = ExpectedEntry(k)
    /\ LoopsEnded => Len(sitemap) = TaskCount(locales)
    /\ \A b \in SitemapBlobs :
          /\ Len(b.content.permalinks) = TaskCount(locales)
          /\ \A k \in 1..TaskCount(locales) : b.content.permalinks[k] = ExpectedEntry(k)

\* sitemap.xml has been uploaded with the four entries of two pages in two
\* locales.
C17_Witness ==
    /\ Len(locales) = 2
    /\ Len(site) = 2
    /\ \E b \in SitemapBlobs : Len(b.content.permalinks) = 4

----------------------------------------------------------------------------
(* C18 *)

\* C18: buildLocalStyle has been called exactly once for every task whose
\* render succeeded, with the task's permalink and the style sheets of the
\* StyleManager that task created, and never otherwise.
C18_LocalStylePerRenderedPage ==
    /\ \A i \in Tasks :
          CopiesIn([scope |-> results[i].pagePermalink, styleManager |-> i], localStyles)
              = IF Rendered(i) THEN 1 ELSE 0
    /\ \A c \in BagToSet(localStyles) :
          /\ c.styleManager \in Tasks
          /\ Rendered(c.styleManager)
          /\ c.scope = results[c.styleManager].pagePermalink

\* Every task of a run has settled: two rendered, each with its own local
\* style, and one failed in its render, without.
C18_Witness ==
    \E i \in Tasks, j \in Tasks, k \in Tasks :
        /\ i # j
        /\ Rendered(i) /\ Rendered(j)
        /\ results[k].pc = "rejected" /\ results[k].error.src = "renderPage"
        /\ BagCardinality(localStyles) = 2
        /\ \A n \in Tasks : ~InFlight(n)

----------------------------------------------------------------------------
(* C19 *)

Indexed(i) == \E d \in indexer : d.task = i

\* C19 as claimed: once the run is over (publish() returned, every task
\* settled), every page of the search index has had its index.html uploaded.
C19_IndexedPagesUploaded ==
    (pc = "returned" /\ \A i \in Tasks : ~InFlight(i)) =>
        \A i \in Tasks : Indexed(i) => Uploaded(i)

\* C19 as amended: at every moment the search index holds exactly the pages
\* whose render succeeded, under the permalink they are rendered under, whether
\* or not their upload succeeds.
C19_IndexedPagesRendered ==
    /\ \A i \in Tasks : Indexed(i) <=> Rendered(i)
    /\ \A d \in indexer : d.task \in Tasks /\ d.permalink = results[d.task].pagePermalink

\* The run is over and a page whose upload failed is in the search index.
C19_Witness ==
    /\ pc = "returned"
    /\ \A i \in Tasks : ~InFlight(i)
    /\ \E i \in Tasks :
          /\ results[i].pc = "rejected"
          /\ results[i].error.src = "uploadBlob"
          /\ Indexed(i)

----------------------------------------------------------------------------
(* PagesWorkshop *)

\* pageService.search(searchPattern), answered from the pages held when it
\* resolves; pages.map(page => new PageItem(page)) keeps the order.
Search(pattern) == SelectSeq(store, LAMBDA c : Contains(c.title, pattern))

\* searchPages(searchPattern) up to its await: working(true); pages([]);
\* pageService.search(searchPattern) is called.  `then` is what the caller does
\* once the promise fulfils, item the page item the caller holds.
SearchPagesCall(pattern, then, item) ==
    /\ Len(searches) < MaxSearches
    /\ working' = TRUE
    /\ workshopPages' = <<>>
    /\ searches' = Append(searches, [pattern |-> pattern, state |-> "pending",
                                     then |-> then, item |-> item])

Pending == {k \in 1..Len(searches) : searches[k].state = "pending"}

\* @OnMounted initialize(): await this.searchPages();
Initialize ==
    /\ initializePc = "constructed"
    /\ SearchPagesCall(<<>>, "subscribe", <<>>)
    /\ initializePc' = "searchPages"
    /\ UNCHANGED <<searchPattern, notifiedPattern, selectedPage, view, store,
                   addPageCalls, created>>
    /\ UNCHANGED publisherVars

\* pageService.search resolves: this.pages(pageItems); this.working(false);
\* then the caller goes on: initialize() subscribes searchPages to the
\* rate-limited searchPattern, onCopyCallback calls selectPage(item).
SearchPagesResolved(k) ==
    /\ searches[k].state = "pending"
    /\ workshopPages' = Search(searches[k].pattern)
    /\ working' = FALSE
    /\ searches' = [searches EXCEPT ![k].state = "fulfilled"]
    /\ IF searches[k].then = "subscribe"
       THEN initializePc' = "subscribed" /\ notifiedPattern' = searchPattern
       ELSE UNCHANGED <<initializePc, notifiedPattern>>
    /\ IF searches[k].then = "selectPage"
       THEN selectedPage' = searches[k].item /\ view' = searches[k].item
       ELSE UNCHANGED <<selectedPage, view>>
    /\ UNCHANGED <<searchPattern, store, addPageCalls, created>>
    /\ UNCHANGED publisherVars

\* pageService.search rejects: searchPages rejects at its await, and with it
\* the caller that awaits it; pages stays empty and working true.
SearchPagesRejected(k) ==
    /\ searches[k].state = "pending"
    /\ searches' = [searches EXCEPT ![k].state = "rejected"]
    /\ initializePc' = IF searches[k].then = "subscribe" THEN "rejected" ELSE initializePc
    /\ UNCHANGED <<searchPattern, notifiedPattern, workshopPages, working, selectedPage,
                   view, store, addPageCalls, created>>
    /\ UNCHANGED publisherVars

\* The user edits the search box.  The subscription is rate limited
\* (ChangeRateLimit): the change is notified later, if at all.
SearchPatternChanged(p) ==
    /\ initializePc # "constructed"
    /\ p # searchPattern
    /\ searchPattern' = p
    /\ UNCHANGED <<initializePc, notifiedPattern, workshopPages, working, selectedPage,
                   view, searches, store, addPageCalls, created>>
    /\ UNCHANGED publisherVars

\* The changes stopped: the subscriber searchPages is called with the value
\* searchPattern now has, when it is another than the subscribers last saw.
SearchPatternNotified ==
    /\ initializePc = "subscribed"
    /\ searchPattern # notifiedPattern
    /\ notifiedPattern' = searchPattern
    /\ SearchPagesCall(searchPattern, "return", <<>>)
    /\ UNCHANGED <<initializePc, searchPattern, selectedPage, view, store,
                   addPageCalls, created>>
    /\ UNCHANGED publisherVars

\* selectPage(pageItem), called by the user on an item of the list:
\* this.selectedPage(pageItem); the details view of the item is opened.
SelectPage(n) ==
    /\ n \in 1..Len(workshopPages)
    /\ selectedPage' = <<workshopPages[n]>>
    /\ view' = <<workshopPages[n]>>
    /\ UNCHANGED <<initializePc, searchPattern, notifiedPattern, workshopPages, working,
                   searches, store, addPageCalls, created>>
    /\ UNCHANGED publisherVars

\* onDeleteCallback: () => { this.searchPages(); }, called by the open view.
OnDeleteCallback ==
    /\ view # <<>>
    /\ SearchPagesCall(<<>>, "return", <<>>)
    /\ UNCHANGED <<initializePc, searchPattern, notifiedPattern, selectedPage, view,
                   store, addPageCalls, created>>
    /\ UNCHANGED publisherVars

\* onCopyCallback: async (item) => { await this.searchPages();
\* this.selectPage(item); }, called by the open view with a page of the service.
OnCopyCallback(n) ==
    /\ view # <<>>
    /\ n \in 1..Len(store)
    /\ SearchPagesCall(<<>>, "selectPage", <<store[n]>>)
    /\ UNCHANGED <<initializePc, searchPattern, notifiedPattern, selectedPage, view,
                   store, addPageCalls, created>>
    /\ UNCHANGED publisherVars

\* addPage() up to its await: this.working(true); createPage is called.
AddPage ==
    /\ initializePc # "constructed"
    /\ created < MaxAdds
    /\ working' = TRUE
    /\ addPageCalls' = addPageCalls + 1
    /\ created' = created + 1
    /\ UNCHANGED <<initializePc, searchPattern, notifiedPattern, workshopPages,
                   selectedPage, view, searches, store>>
    /\ UNCHANGED publisherVars

\* createPage resolves: this.pages.push(pageItem); this.selectPage(pageItem);
\* this.working(false);
CreatePageResolved ==
    /\ addPageCalls > 0
    /\ LET pageItem == PageContract(Len(store) + 1, NewPageTitle)
       IN /\ store' = Append(store, pageItem)
          /\ workshopPages' = Append(workshopPages, pageItem)
          /\ selectedPage' = <<pageItem>>
          /\ view' = <<pageItem>>
    /\ working' = FALSE
    /\ addPageCalls' = addPageCalls - 1
    /\ UNCHANGED <<initializePc, searchPattern, notifiedPattern, searches, created>>
    /\ UNCHANGED publisherVars

\* createPage rejects: addPage rejects at its await and working stays true.
CreatePageRejected ==
    /\ addPageCalls > 0
    /\ addPageCalls' = addPageCalls - 1
    /\ UNCHANGED <<initializePc, searchPattern, notifiedPattern, workshopPages, working,
                   selectedPage, view, searches, store, created>>
    /\ UNCHANGED publisherVars

WorkshopNext ==
    \/ Initialize
    \/ \E k \in 1..Len(searches) : SearchPagesResolved(k)
    \/ \E k \in 1..Len(searches) : SearchPagesRejected(k)
    \/ \E p \in Patterns : SearchPatternChanged(p)
    \/ SearchPatternNotified
    \/ \E n \in 1..Len(workshopPages) : SelectPage(n)
    \/ OnDeleteCallback
    \/ \E n \in 1..Len(store) : OnCopyCallback(n)
    \/ AddPage
    \/ CreatePageResolved
    \/ CreatePageRejected

\* One mounted PagesWorkshop; no publish run has a page to work on.
WorkshopInit == Init /\ site = <<>>

WorkshopSpec == WorkshopInit /\ [][WorkshopNext]_vars

----------------------------------------------------------------------------
(* C20 *)

\* C20: when searchPages calls overlap and their searches resolve in any
\* order (no search failed, addPage never called), working is true as long as
\* a search is in flight, and once none is, working is false and the pages list
\* is the result of the search issued last.
C20_LastSearchWins ==
    (/\ created = 0
     /\ \A k \in 1..Len(searches) : searches[k].state # "rejected")
    =>
    /\ Pending # {} => working = TRUE
    /\ (Pending = {} /\ searches # <<>>) =>
          /\ working = FALSE
          /\ workshopPages = Search(searches[Len(searches)].pattern)

====
